---- MODULE Spec2Model ----
(***************************************************************************)
(* Model of the SQS partial-batch-failure handler of the data platform:    *)
(*   src/050-dependencies/sqs_utils/sqs/sqs_batch_handler.py               *)
(*   src/100-lambda-dependencies/sqs_utils/sqs/utils.py  (get_url)         *)
(*                                                                         *)
(* One invocation of SqsBatchHandler.__call__ is a small state machine:    *)
(* pc = "call"    the handler has been invoked with `event`                *)
(* pc = "loop"    the for loop over event['Records'] (one step per         *)
(*                record), then the partition into successful records      *)
(* pc = "resolve" the for loop of resolve_records (one step per record),   *)
(*                then its unconditional raise                             *)
(* pc = "done"    the invocation has returned or raised (see `outcome`)    *)
(* pc = "idle"    no invocation is running (SpecQueue only)                *)
(* pc = "url"     get_url is called on its own (SpecUrl only)              *)
(* The record processor, the failed-record hook, the SQS client and the    *)
(* queue service are the environment: their outcomes are chosen with \E.   *)
(***************************************************************************)
EXTENDS Integers, Sequences, FiniteSets, TLC

\* ---------------------------------------------------------------- bounds
MaxLen == 3         \* longest batch (event['Records']) explored
MaxMsgs == 3        \* messages initially in the queue (SpecQueue)
MaxBatch == 2       \* longest batch the platform forms (SpecQueue)
MaxDeliveries == 2  \* invocations the platform makes (SpecQueue)
MaxCalls == 3       \* calls of get_url made in one process (SpecUrl)
MaxWrapCalls == 2   \* calls of a function wrapped by from_result (SpecWrap)
MaxTimeout == 3     \* largest query timeout, in seconds (SpecAthena)

\* ------------------------------------------------------------ vocabulary
NoneVal == 0        \* Python None as a processor result
Unbound == <<"unbound", 0>>   \* local variable decoded_event not yet bound
NoRetval == <<"none", 0>>    \* __call__ has not returned a value
RawEvent == <<"event", 0>>    \* the event argument of __call__, as it was passed

\* A queue identifier is modelled by its ':'-separated components, that is
\* by the value of str(queue_arn).split(':').
QArn == <<"arn", "aws", "sqs", "eu-west-1", "123456789012", "q1">>
QArn2 == <<"arn", "aws", "sqs", "eu-west-1", "123456789012", "q2">>
NotAnArn == <<"not-an-arn">>
Arns == {QArn, QArn2, NotAnArn}

\* The keys a record (a dict) may carry besides eventSource.
AllKeys == {"body", "eventSourceArn", "receiptHandle"}

VARIABLES
    on_record,          \* self.__on_record is callable
    on_failed_record,   \* self.__on_failed_record is callable
    isList,             \* 'Records' in event and isinstance(event['Records'], list)
    Records,            \* event['Records'] (with the '__failed' flag of each record)
    pc,
    i,                  \* position of the for loop of __call__ (next record)
    decoded_event,      \* local variable decoded_event of __call__
    previous_results,   \* local variable previous_results of __call__
    error_count,        \* local variable error_count of __call__
    successful_records, \* local variable successful_records (indexes into Records)
    j,                  \* position of the for loop of resolve_records
    outcome,            \* what the caller of __call__ sees
    cache,              \* the memo of @cached(cache={}) around get_url
    lookups,            \* sqs.get_queue_url calls issued by this invocation
    queue,              \* ids of the messages still in the SQS queue
    procCalls,          \* history: calls of the record processor
    hookCalls,          \* history: calls of the failed-record hook
    hookRaised,         \* history: indexes of records whose hook call raised
    deleteCalls,        \* history: calls of sqs.delete_message
    resolveLog,         \* history: how each iteration of resolve_records ended
    procOk,             \* history: indexes whose processor call returned
    procResults,        \* history: what each processor call that returned gave
    retval,             \* the value __call__ returned, if it returned
    urlCalls,           \* history: calls of get_url made directly (SpecUrl)
    everOk,             \* history: ids whose processor call returned, in any invocation
    delivered,          \* ids of the batch delivered to this invocation
    deliveries,         \* invocations started so far
    \* from_result(...)(function): the wrapper and what it emitted
    ignore_fails,       \* parameter ignore_fails of from_result
    wpc,                \* "idle", "finally" (function over, finally block next)
    calls,              \* calls of the wrapper started so far
    fnOutcomes,         \* history: how the wrapped function ended, per call
    event_detail,       \* local variable event_detail of wrapper
    putCalls,           \* history: calls of events.put_events(detail, ...)
    apiCalls,           \* history: calls of boto3 put_events(Entries=[...])
    wrapOutcomes,       \* history: what the caller of wrapper saw, per call
    \* AthenaQuery.wait_for_result
    query_timeout,      \* query_timeout_in_seconds after line 120
    apc,                \* "wait" (the while loop and what follows it), "done"
    current_time,       \* local variable current_time
    polls,              \* history: what each get_status call gave, and to whom
    stopCalls,          \* athena.stop_query_execution calls made
    waitOutcome         \* what the caller of wait_for_result sees

sqsVars == <<on_record, on_failed_record, isList, Records, pc, i, decoded_event,
             previous_results, error_count, successful_records, j, outcome,
             cache, lookups, queue, procCalls, hookCalls, hookRaised,
             deleteCalls, resolveLog, procOk, procResults, retval, urlCalls,
             everOk, delivered, deliveries>>

wrapVars == <<ignore_fails, wpc, calls, fnOutcomes, event_detail, putCalls,
              apiCalls, wrapOutcomes>>

athenaVars == <<query_timeout, apc, current_time, polls, stopCalls, waitOutcome>>

vars == <<sqsVars, wrapVars, athenaVars>>

\* ------------------------------------------------------------- the input
\* One record of event['Records']. kind "nondict" is a list element that is
\* not a dict (a string, a number, null, a list); `keys` are the keys the
\* dict carries; `body` tells whether json.loads(record['body']) returns
\* ("json") or raises ("bad"); `failed` is record['__failed'].
Rec(id, kind, src, keys, body, arn) ==
    [id |-> id, kind |-> kind, eventSource |-> src, keys |-> keys,
     body |-> body, arn |-> arn, failed |-> FALSE]

\* The shapes of record explored, for the record of identity id.
RecordShapes(id) ==
    { Rec(id, "nondict", "none", {}, "none", NotAnArn),
      Rec(id, "dict", "aws:s3", {}, "none", NotAnArn),
      Rec(id, "dict", "aws:sqs", AllKeys, "json", QArn),
      Rec(id, "dict", "aws:sqs", AllKeys, "bad", QArn),
      Rec(id, "dict", "aws:sqs", AllKeys \ {"eventSourceArn"}, "json", NotAnArn),
      Rec(id, "dict", "aws:sqs", AllKeys \ {"receiptHandle"}, "json", QArn),
      Rec(id, "dict", "aws:sqs", AllKeys, "json", NotAnArn) }

\* The record a queue delivers for message id: a complete SQS record.
QueueRecord(id) == Rec(id, "dict", "aws:sqs", AllKeys, "json", QArn)

\* All batches of n records; the record at position k has identity k.
Batches(n) == { [k \in 1..n |-> [s[k] EXCEPT !.id = k]] :
                  s \in [1..n -> RecordShapes(0)] }

IsQueueSourced(rec) == rec.kind = "dict" /\ rec.eventSource = "aws:sqs"

SqsIds(recs) == { recs[k].id : k \in { n \in DOMAIN recs : IsQueueSourced(recs[n]) } }

\* Outcomes of the environment.
ProcOutcomes == {"return", "raise"}
HookOutcomes == {"return", "raise"}
LookupOutcomes == {"found", "QueueDoesNotExist", "ClientError"}
DeleteOutcomes == {"ok", "ReceiptHandleIsInvalid", "ClientError"}

\* ---------------------------------------------------------------- get_url
\* sqs.get_queue_url answers with the address of the queue named by the
\* last component of the identifier.
QueueUrl(arn) ==
    IF arn = QArn2 THEN "https://sqs/123456789012/q2"
                   ELSE "https://sqs/123456789012/q1"

\* queue_name = str(queue_arn).split(':')[-1]; account_id = ...[-2] raises
\* IndexError when the identifier has fewer than two components.
Malformed_Never(arn) == FALSE

Malformed(arn) == Len(arn) < 2

\* @cached(cache={}): the value the body returned is stored under the key.
Memoize_Nothing(cch, arn, val) == cch

Memoize(cch, arn, val) == [cch EXCEPT ![arn] = val]

\* get_url under @cached(cache={}): a hit returns the memoized value; a miss
\* runs the body and memoizes whatever it returns ("NONE" is Python None);
\* an exception leaving the body ("RAISE") memoizes nothing.
\* lk is the answer of sqs.get_queue_url should it be called.
get_url(cch, arn, lk) ==
    IF cch[arn] # "MISS"
    THEN [ret |-> cch[arn], cache |-> cch, looked |-> 0]
    ELSE IF Malformed(arn)
    THEN [ret |-> "NONE", cache |-> Memoize(cch, arn, "NONE"), looked |-> 0]
    ELSE IF lk = "found"
    THEN [ret |-> QueueUrl(arn),
          cache |-> Memoize(cch, arn, QueueUrl(arn)), looked |-> 1]
    ELSE IF lk = "QueueDoesNotExist"
    THEN [ret |-> "NONE", cache |-> Memoize(cch, arn, "NONE"), looked |-> 1]
    ELSE [ret |-> "RAISE", cache |-> cch, looked |-> 1]

\* ------------------------------------------------ the loop body of __call__
\* json.loads(record['body']) if record.get('eventSource') == 'aws:sqs'
\* else record: does the expression evaluate without raising?
DecodeReturns(rec) ==
    /\ rec.kind = "dict"
    /\ rec.eventSource = "aws:sqs" => ("body" \in rec.keys /\ rec.body = "json")

\* The value it evaluates to: the parsed body of the record, or the record.
Decode_AlwaysRecord(rec) == <<"record", rec.id>>

Decode(rec) ==
    IF rec.eventSource = "aws:sqs" THEN <<"body", rec.id>> ELSE <<"record", rec.id>>

\* The value of decoded_event once the try block of the loop body is left:
\* the assignment happens only when the right-hand side returned.
DecodedAfterTry(rec, dec) == IF DecodeReturns(rec) THEN Decode(rec) ELSE dec

\* The record processor is called only if decoding returned.
ProcessorInvoked(rec) == DecodeReturns(rec)

\* The else branch of the try: the processor returned.
RecordSucceeded(rec, p) == ProcessorInvoked(rec) /\ p = "return"

\* The hook is called in the except branch if it is registered; reading an
\* unbound decoded_event raises inside the inner try, before the call.
HookInvoked(rec, dec, hookReg, p) ==
    /\ ~RecordSucceeded(rec, p)
    /\ hookReg
    /\ DecodedAfterTry(rec, dec) # Unbound

\* record['__failed'] = True raises TypeError when record is not a dict;
\* the statement is in the except branch, outside the inner try.
MarkRaises(rec) == rec.kind # "dict"

\* record['__failed'] = True, for the record at position k.
MarkFailed_Forgotten(recs, k) == recs

MarkFailed(recs, k) == [recs EXCEPT ![k].failed = TRUE]

\* previous_results += (record_result,) if record_result is not None else ()
Accumulate_AlwaysAppend(prev, res) == Append(prev, res)

Accumulate(prev, res) == IF res # NoneVal THEN Append(prev, res) ELSE prev

\* -------------------------------------------- the loop body of resolve_records
\* ReceiptHandle=rec['receiptHandle']: the handle of this delivery of the
\* message, which names the message itself.
ReceiptHandle_OfFirst(rec) == 1

ReceiptHandle(rec) == rec.id

\* One iteration for record rec (position idx of event['Records']): the
\* delete_message call it issues, if any, what becomes of the memo, and how
\* the iteration ends ("deleted", or the error that is logged and skipped).
\* lk and d are the answers of get_queue_url and delete_message; with no
\* queue address (None) the client rejects the call before sending it.
ResolveOne(rec, idx, cch, lk, d) ==
    LET skip == [cache |-> cch, looked |-> 0, call |-> <<>>, deleted |-> {},
                 end |-> "notSqs"]
        g == get_url(cch, rec.arn, lk)
    IN  IF rec.eventSource # "aws:sqs" THEN skip
        ELSE IF "eventSourceArn" \notin rec.keys
        THEN [skip EXCEPT !.end = "KeyError"]
        ELSE IF g.ret = "RAISE"
        THEN [skip EXCEPT !.looked = g.looked, !.end = "LookupError"]
        ELSE IF "receiptHandle" \notin rec.keys
        THEN [skip EXCEPT !.cache = g.cache, !.looked = g.looked, !.end = "KeyError"]
        ELSE [cache |-> g.cache, looked |-> g.looked,
              call |-> << [idx |-> idx, QueueUrl |-> g.ret,
                         ReceiptHandle |-> ReceiptHandle(rec)] >>,
              deleted |-> IF g.ret # "NONE" /\ d = "ok"
                          THEN {ReceiptHandle(rec)} ELSE {},
              end |-> IF g.ret = "NONE" THEN "ParamValidationError"
                      ELSE IF d = "ok" THEN "deleted" ELSE d]

\* successful_records = [r for r in event['Records']
\*                       if not r.get('__failed', False)]
RECURSIVE SuccessfulFrom_Inverted(_, _)
SuccessfulFrom_Inverted(recs, k) ==
    IF k > Len(recs) THEN <<>>
    ELSE (IF recs[k].failed THEN <<k>> ELSE <<>>) \o SuccessfulFrom_Inverted(recs, k + 1)

RECURSIVE SuccessfulFrom(_, _)
SuccessfulFrom(recs, k) ==
    IF k > Len(recs) THEN <<>>
    ELSE (IF recs[k].failed THEN <<>> ELSE <<k>>) \o SuccessfulFrom(recs, k + 1)

\* The first record is left out (the list is built from the second on).
SuccessfulRecords_SkipFirst(recs) == SuccessfulFrom(recs, 2)

SuccessfulRecords(recs) == SuccessfulFrom(recs, 1)

\* if len(event['Records']) == len(successful_records): return 0
AllSucceeded_Never(recs, succ) == FALSE

AllSucceeded(recs, succ) == Len(recs) = Len(succ)

\* ------------------------------------------------- the entry of __call__
\* callable(self.__on_record): a record processor has been registered.
Configured_Always(registered) == TRUE

Configured(registered) == registered

\* 'Records' not in event or not isinstance(event['Records'], list)
NotAnSqsEvent_OrEmpty(list, recs) == ~list \/ Len(recs) = 0

NotAnSqsEvent(list, recs) == ~list

\* return self.__on_record(event, *args, event, [], **kwargs)
PassThroughReturn_Zero(res) == <<"int", 0>>

PassThroughReturn(res) == <<"result", res>>

\* return 0
ReturnZero == <<"int", 0>>

\* The for loop of __call__ moves to the next record, after the else branch
\* as after the `continue` of the except branch.
Advance_Stay(k) == k

Advance(k) == k + 1

\* The for loop is over when every record of event['Records'] has been taken.
LoopDone_Early(k, recs) == k > 1 \/ k > Len(recs)

LoopDone(k, recs) == k > Len(recs)

\* ------------------------------------------------------------------ Init
\* A fresh handler (__init__, then the registrations made at import time)
\* and the memo of get_url, empty.
\* ---------------------------------------------------------- from_result
\* Python values the wrapped function handles: the second kind is an object
\* json.dumps cannot serialize (a datetime, a set, bytes).
NoDetail == <<"none", "none">>
Values == {<<"value", "r1">>, <<"object", "dt">>}
LambdaEvent == <<"value", "event">>

\* How the wrapped function can end: it returns a value, or raises an
\* EventRuntimeError (with or without detail), another Exception, or a
\* BaseException that is not an Exception (SystemExit, KeyboardInterrupt).
FnOutcomes ==
    { [kind |-> "return", type |-> "none", value |-> v] : v \in Values }
    \cup { [kind |-> "raise", type |-> "EventRuntimeError", value |-> d] :
             d \in Values \cup {NoDetail} }
    \cup { [kind |-> "raise", type |-> t, value |-> NoDetail] :
             t \in {"ValueError", "SystemExit"} }

IsException(f) == f.kind = "raise" /\ f.type # "SystemExit"

\* EventRuntimeError.get_result: self.detail if self.detail, else the error
\* type and message.
get_result(f) == IF f.value # NoDetail THEN f.value ELSE <<"error", f.type>>

\* The local event_detail before any branch of the try has assigned it.
NoEventDetail == [state |-> "unbound", event |-> NoDetail, result |-> NoDetail]

\* event_detail as the branch of the try taken for outcome f leaves it: the
\* body assigns it after the function returned, `except EventRuntimeError`
\* and `except Exception` assign it; no branch catches a BaseException.
EventDetail_AlwaysSucceeded(f) ==
    [state |-> "SUCCEEDED", event |-> LambdaEvent, result |-> f.value]

EventDetail(f) ==
    IF f.kind = "return"
    THEN [state |-> "SUCCEEDED", event |-> LambdaEvent, result |-> f.value]
    ELSE IF f.type = "EventRuntimeError"
    THEN [state |-> "FAILED", event |-> LambdaEvent, result |-> get_result(f)]
    ELSE IF IsException(f)
    THEN [state |-> "FAILED", event |-> LambdaEvent, result |-> <<"error", f.type>>]
    ELSE NoEventDetail

\* __to_json: json.dumps(obj), or None when obj is not serializable.
Serializable(v) == v[1] # "object"

to_json(detail) ==
    [ok |-> Serializable(detail.event) /\ Serializable(detail.result),
     str |-> detail]

\* events.put_events(detail, ...): the entries built from the details that
\* serialize; the API is called only if there are any; True unless it raised.
put_events(detail, api) ==
    LET js == to_json(detail)
    IN  [entries |-> IF js.ok THEN << js.str >> ELSE <<>>,
         ret |-> ~(js.ok /\ api = "raise")]

\* if not events.put_events(...) and not ignore_fails: raise RuntimeError
EmitFailureRaises_Never(put_ret, ignore) == FALSE

EmitFailureRaises(put_ret, ignore) == ~put_ret /\ ~ignore

\* What the caller of wrapper sees when the finally block raised nothing.
Propagated(f) ==
    IF f.kind = "return" THEN [kind |-> "returned", what |-> f.value]
    ELSE [kind |-> "raised", what |-> <<"error", f.type>>]

\* The wrapper of from_result and the Athena query, not in use.
WrapIdle ==
    /\ ignore_fails = TRUE
    /\ wpc = "idle"
    /\ calls = 0
    /\ fnOutcomes = <<>>
    /\ event_detail = NoEventDetail
    /\ putCalls = <<>>
    /\ apiCalls = <<>>
    /\ wrapOutcomes = <<>>

AthenaIdle ==
    /\ query_timeout = 0
    /\ apc = "done"
    /\ current_time = 0
    /\ polls = <<>>
    /\ stopCalls = 0
    /\ waitOutcome = "none"

FreshCall ==
    /\ i = 1
    /\ decoded_event = Unbound
    /\ previous_results = <<>>
    /\ error_count = 0
    /\ successful_records = <<>>
    /\ j = 1
    /\ outcome = "running"
    /\ procCalls = <<>>
    /\ hookCalls = <<>>
    /\ hookRaised = {}
    /\ deleteCalls = <<>>
    /\ resolveLog = <<>>
    /\ procOk = {}
    /\ procResults = <<>>
    /\ retval = NoRetval

\* One invocation with any event: no 'Records' list, or a batch of up to
\* MaxLen records of any shape. The queue-sourced records of the batch are
\* messages in flight, still in their queue.
Init ==
    /\ on_record \in BOOLEAN
    /\ on_failed_record \in BOOLEAN
    /\ isList \in BOOLEAN
    /\ Records \in UNION { Batches(n) : n \in 0..MaxLen }
    /\ ~isList => Records = <<>>
    /\ pc = "call"
    /\ FreshCall
    /\ cache = [a \in Arns |-> "MISS"]
    /\ lookups = 0
    /\ queue = SqsIds(Records)
    /\ delivered = SqsIds(Records)
    /\ everOk = {}
    /\ urlCalls = <<>>
    /\ deliveries = 1
    /\ WrapIdle
    /\ AthenaIdle

\* -------------------------------------------------------------- __call__
\* if not callable(self.__on_record): raise RuntimeError(...)
CallUnconfigured ==
    /\ pc = "call"
    /\ ~Configured(on_record)
    /\ outcome' = "RuntimeError"
    /\ pc' = "done"
    /\ UNCHANGED <<on_record, on_failed_record, isList, Records, i, decoded_event,
                   previous_results, error_count, successful_records, j,
                   cache, lookups, queue, procCalls, hookCalls, hookRaised,
                   deleteCalls, resolveLog, procOk, procResults, retval,
                   urlCalls, everOk, delivered, deliveries, wrapVars, athenaVars>>

\* Not an SQS event: return self.__on_record(event, *args, event, [], **kwargs)
\* (index 0 stands for the raw event).
CallPassThrough ==
    /\ pc = "call"
    /\ Configured(on_record)
    /\ NotAnSqsEvent(isList, Records)
    /\ \E p \in ProcOutcomes, res \in {NoneVal, 1} :
         IF p = "return"
         THEN /\ outcome' = "processorResult"
              /\ procResults' = Append(procResults, [idx |-> 0, res |-> res])
              /\ retval' = PassThroughReturn(res)
         ELSE /\ outcome' = "processorError"
              /\ UNCHANGED <<procResults, retval>>
    /\ procCalls' = Append(procCalls, [idx |-> 0, decoded |-> RawEvent,
                                       raw |-> RawEvent, prior |-> <<>>])
    /\ pc' = "done"
    /\ UNCHANGED <<on_record, on_failed_record, isList, Records, i, decoded_event,
                   previous_results, error_count, successful_records, j,
                   cache, lookups, queue, hookCalls, hookRaised,
                   deleteCalls, resolveLog, procOk, urlCalls, everOk, delivered,
                   deliveries, wrapVars, athenaVars>>

\* previous_results = (); error_count = 0; enter the for loop.
CallBatch ==
    /\ pc = "call"
    /\ Configured(on_record)
    /\ ~NotAnSqsEvent(isList, Records)
    /\ previous_results' = <<>>
    /\ error_count' = 0
    /\ i' = 1
    /\ pc' = "loop"
    /\ UNCHANGED <<on_record, on_failed_record, isList, Records, decoded_event,
                   successful_records, j, outcome,
                   cache, lookups, queue, procCalls, hookCalls, hookRaised,
                   deleteCalls, resolveLog, procOk, procResults, retval,
                   urlCalls, everOk, delivered, deliveries, wrapVars, athenaVars>>

\* One iteration of `for record in event['Records']`: p and res are the
\* processor's outcome and result, h the hook's outcome.
ProcessRecord ==
    /\ pc = "loop"
    /\ ~LoopDone(i, Records)
    /\ \E p \in ProcOutcomes, h \in HookOutcomes, res \in {NoneVal, Records[i].id} :
         LET rec == Records[i]
             dec == DecodedAfterTry(rec, decoded_event)
             ok == RecordSucceeded(rec, p)
             hk == HookInvoked(rec, decoded_event, on_failed_record, p)
             call == [idx |-> i, decoded |-> dec, raw |-> rec.id,
                      prior |-> previous_results]
         IN  /\ decoded_event' = dec
             /\ procCalls' = IF ProcessorInvoked(rec)
                             THEN Append(procCalls, call) ELSE procCalls
             /\ hookCalls' = IF hk THEN Append(hookCalls, call) ELSE hookCalls
             /\ hookRaised' = IF hk /\ h = "raise"
                              THEN hookRaised \cup {i} ELSE hookRaised
             /\ previous_results' = IF ok THEN Accumulate(previous_results, res)
                                    ELSE previous_results
             /\ procOk' = IF ok THEN procOk \cup {i} ELSE procOk
             /\ procResults' = IF ok THEN Append(procResults, [idx |-> i, res |-> res])
                               ELSE procResults
             /\ everOk' = IF ok THEN everOk \cup {rec.id} ELSE everOk
             /\ IF ok
                THEN /\ i' = Advance(i)
                     /\ UNCHANGED <<Records, error_count, pc, outcome>>
                ELSE IF MarkRaises(rec)
                THEN /\ outcome' = "TypeError"
                     /\ pc' = "done"
                     /\ UNCHANGED <<Records, error_count, i>>
                ELSE /\ Records' = MarkFailed(Records, i)
                     /\ error_count' = error_count + 1
                     /\ i' = Advance(i)
                     /\ UNCHANGED <<pc, outcome>>
    /\ UNCHANGED <<on_record, on_failed_record, isList, successful_records, j,
                   cache, lookups, queue, deleteCalls, resolveLog,
                   retval, urlCalls, delivered, deliveries, wrapVars, athenaVars>>

\* After the loop: the successful records; return 0 if that is all of them,
\* else call resolve_records(successful_records).
Partition ==
    /\ pc = "loop"
    /\ LoopDone(i, Records)
    /\ successful_records' = SuccessfulRecords(Records)
    /\ IF AllSucceeded(Records, successful_records')
       THEN /\ outcome' = "return0"
            /\ retval' = ReturnZero
            /\ pc' = "done"
       ELSE /\ pc' = "resolve"
            /\ UNCHANGED <<outcome, retval>>
    /\ j' = 1
    /\ UNCHANGED <<on_record, on_failed_record, isList, Records, i, decoded_event,
                   previous_results, error_count,
                   cache, lookups, queue, procCalls, hookCalls, hookRaised,
                   deleteCalls, resolveLog, procOk, procResults,
                   urlCalls, everOk, delivered, deliveries, wrapVars, athenaVars>>

\* ------------------------------------------------------- resolve_records
\* One iteration of `for rec in records`.
ResolveRecord ==
    /\ pc = "resolve"
    /\ j <= Len(successful_records)
    /\ \E lk \in LookupOutcomes, d \in DeleteOutcomes :
         LET idx == successful_records[j]
             r == ResolveOne(Records[idx], idx, cache, lk, d)
         IN  /\ cache' = r.cache
             /\ lookups' = lookups + r.looked
             /\ deleteCalls' = deleteCalls \o r.call
             /\ queue' = queue \ r.deleted
             /\ resolveLog' = Append(resolveLog, [idx |-> idx, end |-> r.end,
                                                looked |-> r.looked])
    /\ j' = j + 1
    /\ UNCHANGED <<on_record, on_failed_record, isList, Records, pc, i,
                   decoded_event, previous_results, error_count,
                   successful_records, outcome, procCalls, hookCalls,
                   hookRaised, procOk, procResults, retval, urlCalls,
                   everOk, delivered, deliveries, wrapVars, athenaVars>>

\* raise Exception('Partial batch failure')
RaiseBatchFailure ==
    /\ pc = "resolve"
    /\ j > Len(successful_records)
    /\ outcome' = "BatchFailure"
    /\ pc' = "done"
    /\ UNCHANGED <<on_record, on_failed_record, isList, Records, i, decoded_event,
                   previous_results, error_count, successful_records, j,
                   cache, lookups, queue, procCalls, hookCalls, hookRaised,
                   deleteCalls, resolveLog, procOk, procResults, retval,
                   urlCalls, everOk, delivered, deliveries, wrapVars, athenaVars>>

Next ==
    \/ CallUnconfigured
    \/ CallPassThrough
    \/ CallBatch
    \/ ProcessRecord
    \/ Partition
    \/ ResolveRecord
    \/ RaiseBatchFailure

Spec == Init /\ [][Next]_vars

\* ------------------------------------------- the queue and its consumer
\* The Lambda/SQS integration around the handler: the platform hands a batch
\* of messages of the queue to one invocation; on a clean return it deletes
\* the whole batch; after a raised failure it deletes nothing and every
\* message still in the queue is delivered again later. The locals of an
\* invocation, and the histories kept of it, end with it.
InitQueue ==
    /\ on_record = TRUE
    /\ on_failed_record \in BOOLEAN
    /\ isList = TRUE
    /\ Records = <<>>
    /\ pc = "idle"
    /\ FreshCall
    /\ cache = [a \in Arns |-> "MISS"]
    /\ lookups = 0
    /\ queue = 1..MaxMsgs
    /\ delivered = {}
    /\ everOk = {}
    /\ urlCalls = <<>>
    /\ deliveries = 0
    /\ WrapIdle
    /\ AthenaIdle

\* The batches the platform can form from the messages in q: up to MaxBatch
\* distinct messages, in any order.
QueueBatches(q) ==
    UNION { { b \in [1..n -> q] : \A x, y \in 1..n : x # y => b[x] # b[y] } :
            n \in 1..MaxBatch }

Deliver ==
    /\ pc = "idle"
    /\ deliveries < MaxDeliveries
    /\ \E b \in QueueBatches(queue) :
         /\ Records' = [k \in DOMAIN b |-> QueueRecord(b[k])]
         /\ delivered' = { b[k] : k \in DOMAIN b }
    /\ deliveries' = deliveries + 1
    /\ pc' = "call"
    /\ UNCHANGED <<on_record, on_failed_record, isList, i, decoded_event,
                   previous_results, error_count, successful_records, j, outcome,
                   cache, lookups, queue, procCalls, hookCalls, hookRaised,
                   deleteCalls, resolveLog, procOk, procResults, retval,
                   urlCalls, everOk, wrapVars, athenaVars>>

\* The invocation is over: a clean return acknowledges the whole batch.
CleanReturn(o) == o \in {"return0", "processorResult"}

Ack ==
    /\ pc = "done"
    /\ queue' = IF CleanReturn(outcome) THEN queue \ delivered ELSE queue
    /\ pc' = "idle"
    /\ Records' = <<>>
    /\ delivered' = {}
    /\ i' = 1
    /\ decoded_event' = Unbound
    /\ previous_results' = <<>>
    /\ error_count' = 0
    /\ successful_records' = <<>>
    /\ j' = 1
    /\ outcome' = "running"
    /\ lookups' = 0
    /\ procCalls' = <<>>
    /\ hookCalls' = <<>>
    /\ hookRaised' = {}
    /\ deleteCalls' = <<>>
    /\ resolveLog' = <<>>
    /\ procOk' = {}
    /\ procResults' = <<>>
    /\ retval' = NoRetval
    /\ UNCHANGED <<on_record, on_failed_record, isList, cache, urlCalls, everOk,
                   deliveries, wrapVars, athenaVars>>

\* The platform ends the invocation wherever it stands (timeout, crash of the
\* worker): nothing more of it runs, and it did not return cleanly.
Kill ==
    /\ pc \in {"call", "loop", "resolve"}
    /\ pc' = "done"
    /\ outcome' = "killed"
    /\ UNCHANGED <<on_record, on_failed_record, isList, Records, i, decoded_event,
                   previous_results, error_count, successful_records, j,
                   cache, lookups, queue, procCalls, hookCalls, hookRaised,
                   deleteCalls, resolveLog, procOk, procResults, retval,
                   urlCalls, everOk, delivered, deliveries, wrapVars, athenaVars>>

NextQueue ==
    \/ Deliver
    \/ Kill
    \/ CallBatch
    \/ ProcessRecord
    \/ Partition
    \/ ResolveRecord
    \/ RaiseBatchFailure
    \/ Ack

SpecQueue == InitQueue /\ [][NextQueue]_vars

\* ------------------------------------------- the queue, served for ever
\* The platform keeps delivering the messages still in the queue, without
\* limit and without killing invocations.
Redeliver ==
    /\ pc = "idle"
    /\ \E b \in QueueBatches(queue) :
         /\ Records' = [k \in DOMAIN b |-> QueueRecord(b[k])]
         /\ delivered' = { b[k] : k \in DOMAIN b }
    /\ pc' = "call"
    /\ UNCHANGED <<on_record, on_failed_record, isList, i, decoded_event,
                   previous_results, error_count, successful_records, j, outcome,
                   cache, lookups, queue, procCalls, hookCalls, hookRaised,
                   deleteCalls, resolveLog, procOk, procResults, retval,
                   urlCalls, everOk, deliveries, wrapVars, athenaVars>>

\* The queue the messages came from exists: get_queue_url finds it, or fails
\* for a passing reason.
ResolveExisting == ResolveRecord /\ cache'[QArn] # "NONE"

\* The steps of the handler and the acknowledgment of its return.
Handler ==
    \/ CallBatch
    \/ ProcessRecord
    \/ Partition
    \/ ResolveExisting
    \/ RaiseBatchFailure
    \/ Ack

NextLive ==
    \/ Redeliver
    \/ Handler

\* The processor returns for message m; the delete of message m goes through.
ProcessorSucceeds(m) ==
    ProcessRecord /\ Records[i].id = m /\ i \in procOk'

DeleteSucceeds(m) == ResolveExisting /\ m \in queue /\ m \notin queue'

\* The invocation runs on; every message still queued is delivered again and
\* again; for every message the processor does not fail for ever, nor does
\* its delete.
SpecLive ==
    /\ InitQueue
    /\ [][NextLive]_vars
    /\ WF_vars(Handler)
    /\ \A m \in 1..MaxMsgs : SF_vars(Redeliver /\ m \in delivered')
    /\ \A m \in 1..MaxMsgs : SF_vars(ProcessorSucceeds(m))
    /\ \A m \in 1..MaxMsgs : SF_vars(DeleteSucceeds(m))

\* ------------------------------------------------ get_url called on its own
\* One process, whose memo starts empty, calls get_url up to MaxCalls times
\* with any identifiers; the queue service answers each lookup as it likes.
InitUrl ==
    /\ on_record = TRUE
    /\ on_failed_record = FALSE
    /\ isList = TRUE
    /\ Records = <<>>
    /\ pc = "url"
    /\ FreshCall
    /\ cache = [a \in Arns |-> "MISS"]
    /\ lookups = 0
    /\ queue = {}
    /\ delivered = {}
    /\ everOk = {}
    /\ urlCalls = <<>>
    /\ deliveries = 0
    /\ WrapIdle
    /\ AthenaIdle

\* utils.get_url(arn): `lookup` is the answer of sqs.get_queue_url when the
\* call was made, "none" when it was not.
GetUrlCall ==
    /\ pc = "url"
    /\ Len(urlCalls) < MaxCalls
    /\ \E arn \in Arns, lk \in LookupOutcomes :
         LET g == get_url(cache, arn, lk)
         IN  /\ cache' = g.cache
             /\ lookups' = lookups + g.looked
             /\ urlCalls' = Append(urlCalls,
                    [arn |-> arn, ret |-> g.ret, looked |-> g.looked,
                     lookup |-> IF g.looked = 1 THEN lk ELSE "none"])
    /\ UNCHANGED <<on_record, on_failed_record, isList, Records, pc, i,
                   decoded_event, previous_results, error_count,
                   successful_records, j, outcome, queue, procCalls, hookCalls,
                   hookRaised, deleteCalls, resolveLog, procOk, procResults,
                   retval, everOk, delivered, deliveries, wrapVars, athenaVars>>

NextUrl == GetUrlCall

SpecUrl == InitUrl /\ [][NextUrl]_vars

\* ------------------------------------------ a function under from_result
\* The handler and the memo of get_url, not in use.
SqsIdle ==
    /\ on_record = TRUE
    /\ on_failed_record = FALSE
    /\ isList = TRUE
    /\ Records = <<>>
    /\ pc = "off"
    /\ FreshCall
    /\ cache = [a \in Arns |-> "MISS"]
    /\ lookups = 0
    /\ queue = {}
    /\ delivered = {}
    /\ everOk = {}
    /\ urlCalls = <<>>
    /\ deliveries = 0

\* wrapper = from_result(ignore_fails=...)(function), called up to
\* MaxWrapCalls times; each call is the try statement, then its finally.
InitWrap ==
    /\ SqsIdle
    /\ AthenaIdle
    /\ ignore_fails \in BOOLEAN
    /\ wpc = "idle"
    /\ calls = 0
    /\ fnOutcomes = <<>>
    /\ event_detail = NoEventDetail
    /\ putCalls = <<>>
    /\ apiCalls = <<>>
    /\ wrapOutcomes = <<>>

\* try: result = function(event, ...) and the branch that follows it.
WrapTry ==
    /\ wpc = "idle"
    /\ calls < MaxWrapCalls
    /\ \E f \in FnOutcomes :
         /\ fnOutcomes' = Append(fnOutcomes, f)
         /\ event_detail' = EventDetail(f)
    /\ calls' = calls + 1
    /\ wpc' = "finally"
    /\ UNCHANGED <<ignore_fails, putCalls, apiCalls, wrapOutcomes, sqsVars,
                   athenaVars>>

\* finally: reading the unbound event_detail raises UnboundLocalError;
\* otherwise put_events is called, and RuntimeError raised if it reported a
\* failure that is not to be ignored; otherwise the return or the raise of
\* the try statement goes through.
WrapFinally ==
    /\ wpc = "finally"
    /\ IF event_detail = NoEventDetail
       THEN /\ wrapOutcomes' = Append(wrapOutcomes,
                   [kind |-> "raised", what |-> <<"error", "UnboundLocalError">>])
            /\ UNCHANGED <<putCalls, apiCalls>>
       ELSE \E api \in {"ok", "raise"} :
              LET put == put_events(event_detail, api)
              IN  /\ putCalls' = Append(putCalls,
                         [call |-> calls, detail |-> event_detail])
                  /\ apiCalls' = IF put.entries # <<>>
                                 THEN Append(apiCalls,
                                        [call |-> calls, Entries |-> put.entries,
                                         accepted |-> api = "ok"])
                                 ELSE apiCalls
                  /\ wrapOutcomes' = Append(wrapOutcomes,
                         IF EmitFailureRaises(put.ret, ignore_fails)
                         THEN [kind |-> "raised", what |-> <<"error", "RuntimeError">>]
                         ELSE Propagated(fnOutcomes[calls]))
    /\ event_detail' = NoEventDetail
    /\ wpc' = "idle"
    /\ UNCHANGED <<ignore_fails, calls, fnOutcomes, sqsVars, athenaVars>>

NextWrap ==
    \/ WrapTry
    \/ WrapFinally

SpecWrap == InitWrap /\ [][NextWrap]_vars

\* ------------------------------------------- AthenaQuery.wait_for_result
\* What get_status gives: the state of the query, or the exception of
\* athena.get_query_execution, logged and raised again ("RAISE").
Running == {"QUEUED", "RUNNING"}
Terminal == {"SUCCEEDED", "FAILED", "CANCELLED"}
PollOutcomes == Running \cup Terminal \cup {"RAISE"}
Timeouts == (0 - 1)..MaxTimeout

\* __sleep = 1
Sleep == 1

\* while current_time <= query_timeout_in_seconds
LoopContinues_Strict(t, timeout) == t < timeout

LoopContinues(t, timeout) == t <= timeout

\* cancel(): polls the status once; stops the query unless the status is
\* terminal; False if get_status or stop_query_execution raised, else True.
\* st is what get_status gives, stop what stop_query_execution does.
cancel(st, stop) ==
    [stopped |-> IF st \in Running THEN 1 ELSE 0,
     ret |-> st # "RAISE" /\ (st \in Running => stop = "ok")]

InitAthena ==
    /\ SqsIdle
    /\ WrapIdle
    /\ query_timeout \in Timeouts
    /\ apc = "wait"
    /\ current_time = 0
    /\ polls = <<>>
    /\ stopCalls = 0
    /\ waitOutcome = "running"

\* One iteration of the while loop: get_status, then return the results,
\* raise, or sleep. res is what athena.get_query_results does.
WaitPoll ==
    /\ apc = "wait"
    /\ LoopContinues(current_time, query_timeout)
    /\ \E st \in PollOutcomes, res \in {"ok", "raise"} :
         /\ polls' = Append(polls, [by |-> "wait", status |-> st,
                                    at |-> current_time])
         /\ IF st \in Running
            THEN /\ current_time' = current_time + Sleep
                 /\ UNCHANGED <<apc, waitOutcome>>
            ELSE /\ apc' = "done"
                 /\ waitOutcome' =
                        IF st = "RAISE" THEN "get_status error"
                        ELSE IF st = "SUCCEEDED"
                        THEN (IF res = "ok" THEN "results" ELSE "get_result error")
                        ELSE "RuntimeError(reason)"
                 /\ UNCHANGED current_time
    /\ UNCHANGED <<query_timeout, stopCalls, sqsVars, wrapVars>>

\* After the loop: if not self.cancel(): raise RuntimeError(...);
\* raise TimeoutError()
WaitExpire ==
    /\ apc = "wait"
    /\ ~LoopContinues(current_time, query_timeout)
    /\ \E st \in PollOutcomes, stop \in {"ok", "raise"} :
         LET c == cancel(st, stop)
         IN  /\ polls' = Append(polls, [by |-> "cancel", status |-> st,
                                        at |-> current_time])
             /\ stopCalls' = stopCalls + c.stopped
             /\ waitOutcome' = IF c.ret THEN "TimeoutError"
                                ELSE "RuntimeError(failed to stop)"
    /\ apc' = "done"
    /\ UNCHANGED <<query_timeout, current_time, sqsVars, wrapVars>>

NextAthena ==
    \/ WaitPoll
    \/ WaitExpire

\* The thread running wait_for_result keeps running.
SpecAthena == InitAthena /\ [][NextAthena]_vars /\ WF_vars(NextAthena)

\* ================================================================ claims
\* Vocabulary of the claims, over the histories of one invocation.
N == Len(Records)
BatchDone == pc = "done" /\ on_record /\ isList
FailedIdx == { k \in DOMAIN Records : Records[k].failed }
InvokedIdx == { procCalls[n].idx : n \in DOMAIN procCalls }
DeleteCallsFor(k) == { n \in DOMAIN deleteCalls : deleteCalls[n].idx = k }
ResolveEnds(k) == { resolveLog[n].end : n \in { m \in DOMAIN resolveLog : resolveLog[m].idx = k } }
CompleteSqs(rec) == IsQueueSourced(rec) /\ AllKeys \subseteq rec.keys /\ Len(rec.arn) >= 2
\* Processing failed on record k and on no other record of the batch.
FailsOnlyOn(k) == k \in 1..N /\ procOk = (1..N) \ {k}

\* C1 (as stated): in a batch of n queue-sourced records (complete SQS
\* records: eventSourceArn, receiptHandle and body present) where processing
\* fails on record k only, the invocation raises the batch failure and issues
\* exactly n-1 delete_message calls, one per other record with that record's
\* own receipt handle, and none for record k.
C1_Original ==
    \A k \in 1..N :
        (BatchDone /\ FailsOnlyOn(k) /\ \A m \in 1..N : CompleteSqs(Records[m]))
        => /\ outcome = "BatchFailure"
           /\ Len(deleteCalls) = N - 1
           /\ DeleteCallsFor(k) = {}
           /\ \A m \in (1..N) \ {k} :
                /\ Cardinality(DeleteCallsFor(m)) = 1
                /\ \A n \in DeleteCallsFor(m) :
                     deleteCalls[n].ReceiptHandle = Records[m].id

\* C1 (amended): in a batch of n queue-sourced records where processing fails
\* on record k only, the invocation raises the batch failure and issues at
\* most n-1 delete_message calls: none for record k, and for each other
\* record exactly one, with that record's own receipt handle, unless its
\* iteration of resolve_records ended before the call (a missing
\* eventSourceArn or receiptHandle key, or get_url raising), in which case
\* none; exactly n-1 when no iteration ended that way.
C1_Amended ==
    \A k \in 1..N :
        (BatchDone /\ FailsOnlyOn(k) /\ \A m \in 1..N : IsQueueSourced(Records[m]))
        => /\ outcome = "BatchFailure"
           /\ Len(deleteCalls) <= N - 1
           /\ DeleteCallsFor(k) = {}
           /\ \A m \in (1..N) \ {k} :
                /\ Cardinality(ResolveEnds(m)) = 1
                /\ Cardinality(DeleteCallsFor(m)) =
                     IF ResolveEnds(m) \subseteq {"KeyError", "LookupError"} THEN 0 ELSE 1
                /\ \A n \in DeleteCallsFor(m) :
                     deleteCalls[n].ReceiptHandle = Records[m].id
           /\ (\A m \in (1..N) \ {k} : ResolveEnds(m) \cap {"KeyError", "LookupError"} = {})
                => Len(deleteCalls) = N - 1

\* Records A, B, C from the queue, B fails: delete(A) and delete(C) issued.
C1_Witness ==
    /\ BatchDone /\ N = 3 /\ FailsOnlyOn(2)
    /\ \A m \in 1..N : IsQueueSourced(Records[m])
    /\ outcome = "BatchFailure"
    /\ Len(deleteCalls) = 2
    /\ deleteCalls[1].ReceiptHandle = 1 /\ deleteCalls[2].ReceiptHandle = 3

\* C2: at every moment, every delete_message call issued so far is for a
\* record whose processor call was made in this invocation and returned, and
\* that is not marked failed.
C2_DeleteOnlySucceeded ==
    \A n \in DOMAIN deleteCalls :
        /\ deleteCalls[n].idx \in InvokedIdx
        /\ deleteCalls[n].idx \in procOk
        /\ ~Records[deleteCalls[n].idx].failed

\* A batch with a failed record for which a delete call has been issued for
\* another record.
C2_Witness ==
    /\ pc = "done" /\ FailedIdx # {} /\ Len(deleteCalls) >= 1

\* C3: across deliveries and redeliveries, a message that has left the queue
\* (deleted by the resolver, or acknowledged with its batch on a clean
\* return) is one whose processor call returned in some invocation.
C3_NoSilentDrop == (1..MaxMsgs) \ queue \subseteq everOk

\* A second delivery that ends in the batch failure: one message of the
\* batch was deleted by the resolver, another failed, has never been
\* processed successfully and is still in the queue, and a message outside
\* the batch left the queue in the first delivery.
C3_Witness ==
    /\ pc = "done" /\ deliveries = 2 /\ outcome = "BatchFailure"
    /\ \E m \in delivered : m \notin queue
    /\ \E m \in delivered : m \in queue /\ m \notin everOk
    /\ \E m \in (1..MaxMsgs) \ delivered : m \notin queue

\* C4 (as stated): after an invocation that ends in the batch failure, the
\* messages of the batch still in the queue (those the platform delivers
\* again) are exactly the records that failed.
C4_Original ==
    (pc = "done" /\ outcome = "BatchFailure")
    => queue \cap delivered = { Records[k].id : k \in FailedIdx }

\* C4 (amended): after an invocation that ends in the batch failure, every
\* failed queue record is still in the queue, no delete was attempted for it, and
\* for every queue-sourced record that succeeded exactly one delete was
\* attempted; that record has left the queue exactly if the attempt
\* succeeded: a succeeded record whose queue-URL lookup or delete call failed
\* stays in the queue and is delivered again with the failed ones.
C4_Amended ==
    (pc = "done" /\ outcome = "BatchFailure")
    => /\ FailedIdx # {}
       /\ \A k \in FailedIdx :
            /\ ResolveEnds(k) = {}
            /\ IsQueueSourced(Records[k]) => Records[k].id \in queue
       /\ \A k \in (1..N) \ FailedIdx :
            IsQueueSourced(Records[k]) =>
              /\ Cardinality({ n \in DOMAIN resolveLog : resolveLog[n].idx = k }) = 1
              /\ (Records[k].id \in queue) <=> ("deleted" \notin ResolveEnds(k))

\* A batch failure after which one succeeded record is deleted and the
\* failed one is still queued.
C4_Witness ==
    /\ pc = "done" /\ outcome = "BatchFailure" /\ N = 2
    /\ \E k \in FailedIdx : Records[k].id \in queue
    /\ \E k \in (1..N) \ FailedIdx : Records[k].id \notin queue

\* C5: a batch in which every record's processor call returned ends with
\* return 0, no delete_message call and no get_queue_url call.
C5_AllSucceed ==
    (BatchDone /\ procOk = 1..N)
    => /\ outcome = "return0"
       /\ deleteCalls = <<>>
       /\ lookups = 0
       /\ resolveLog = <<>>

\* A batch of three records, all processed successfully.
C5_Witness == BatchDone /\ N = 3 /\ procOk = 1..3 /\ outcome = "return0"

\* The positions of event['Records'] the for loop of __call__ has entered.
Reached == IF outcome = "TypeError" THEN 1..i ELSE 1..(i - 1)
\* The batch holds dicts only.
DictBatch == \A m \in 1..N : Records[m].kind = "dict"
\* Processing of record k failed (in decoding or in the processor).
ProcessingFailed(k) == k \in Reached /\ k \notin procOk
HookCallsFor(k) == { n \in DOMAIN hookCalls : hookCalls[n].idx = k }
ResolveItersFor(k) == { n \in DOMAIN resolveLog : resolveLog[n].idx = k }

\* C6 (as stated): a failure while handling one record never aborts the
\* batch: whatever the shapes of the records, once the invocation is over the
\* loop has entered every record of the batch.
C6_NeverAborts == BatchDone => Reached = 1..N

\* C6 for batches of dicts: the loop enters every record, and every record is
\* then either processed successfully or marked failed.
C6_ForDictRecords ==
    (BatchDone /\ DictBatch)
    => /\ Reached = 1..N
       /\ \A k \in 1..N : (k \in procOk) # Records[k].failed

\* C7 (as stated): in batch mode the invocation ends in one of two ways: it
\* returns 0 and no record failed, or it raises the batch failure, after the
\* whole resolution pass, and some record failed.
C7_TwoOutcomes ==
    BatchDone =>
        \/ outcome = "return0" /\ procOk = 1..N
        \/ /\ outcome = "BatchFailure"
           /\ procOk # 1..N
           /\ Len(resolveLog) = Len(successful_records)

\* C7 for batches of dicts.
C7_ForDictRecords == (BatchDone /\ DictBatch) => C7_TwoOutcomes

\* C8 (as stated, for batches of dicts and a registered hook): the hook is
\* called exactly once for every record whose processing failed, with that
\* record's own decoded body and raw record, and never for a record that
\* succeeded.
C8_HookOncePerFailure ==
    (BatchDone /\ DictBatch /\ on_failed_record)
    => \A k \in 1..N :
         /\ Cardinality(HookCallsFor(k)) = IF ProcessingFailed(k) THEN 1 ELSE 0
         /\ \A n \in HookCallsFor(k) :
              /\ hookCalls[n].raw = Records[k].id
              /\ hookCalls[n].decoded[2] = Records[k].id

\* C8 for the records whose processor was called and raised: one hook call,
\* with the record's own decoded body, raw record and the results so far.
C8_ForProcessorFailures ==
    (BatchDone /\ on_failed_record)
    => \A k \in InvokedIdx \ procOk :
         /\ Cardinality(HookCallsFor(k)) = 1
         /\ \A n \in HookCallsFor(k) : \E c \in DOMAIN procCalls :
              hookCalls[n] = procCalls[c]

\* C9 (as stated): when the hook raised for some record, that record is
\* marked failed, the loop has entered every record, the resolution pass has
\* visited every successful record and the invocation raises the batch
\* failure.
C9_HookErrorDiscarded ==
    (BatchDone /\ hookRaised # {})
    => /\ hookRaised \subseteq FailedIdx
       /\ Reached = 1..N
       /\ Len(resolveLog) = Len(successful_records)
       /\ \A k \in procOk : Cardinality(ResolveItersFor(k)) = 1
       /\ outcome = "BatchFailure"

\* C9 for batches of dicts.
C9_ForDictRecords == (BatchDone /\ DictBatch) => C9_HookErrorDiscarded

\* C10 (as stated): whenever processing of at least one record failed, the
\* invocation raises the batch failure, after resolve_records has visited
\* every successful record once, whatever errors the visits ended in.
C10_AlwaysBatchFailure ==
    (BatchDone /\ \E k \in 1..N : ProcessingFailed(k))
    => /\ outcome = "BatchFailure"
       /\ \A k \in procOk : Cardinality(ResolveItersFor(k)) = 1

\* C10 for batches of dicts; and no visit is cut short by an earlier error.
C10_ForDictRecords ==
    (BatchDone /\ DictBatch /\ \E k \in 1..N : ProcessingFailed(k))
    => /\ outcome = "BatchFailure"
       /\ \A k \in procOk : Cardinality(ResolveItersFor(k)) = 1
       /\ \A k \in 1..N \ procOk : ResolveItersFor(k) = {}

\* ---------------------------------------------------------------- C11
\* The non-null results of the processor calls that returned for records
\* before position k, in the order the calls were made.
NonNullBefore(k) ==
    LET sel == SelectSeq(procResults, LAMBDA r : r.idx < k /\ r.res # NoneVal)
    IN  [n \in 1..Len(sel) |-> sel[n].res]

\* C11: in batch mode the records are processed one after another in delivery
\* order (the positions of the processor calls strictly increase and none is
\* ahead of the loop), and the prior-results sequence each call receives is
\* exactly the non-null results of the earlier records whose processor
\* returned, in processing order; results of failed records and null results
\* never appear in it.
C11_PriorResults ==
    isList =>
        /\ \A n \in DOMAIN procCalls :
             /\ procCalls[n].idx \in 1..N
             /\ procCalls[n].idx <= i
             /\ procCalls[n].prior = NonNullBefore(procCalls[n].idx)
             /\ \A m \in 1..Len(procCalls[n].prior) :
                  /\ procCalls[n].prior[m] # NoneVal
                  /\ procCalls[n].prior[m] \in procOk
                  /\ procCalls[n].prior[m] < procCalls[n].idx
        /\ \A n, m \in DOMAIN procCalls :
             n < m => procCalls[n].idx < procCalls[m].idx

\* The third record is processed after the first returned a result, the
\* second having failed or returned null: it receives the first result only.
C11_Witness ==
    /\ isList /\ N = 3
    /\ \E n \in DOMAIN procCalls :
         /\ procCalls[n].idx = 3
         /\ procCalls[n].prior = <<1>>
    /\ 2 \notin procOk
    /\ \E n \in DOMAIN procResults : procResults[n].idx = 1

\* The same, the second record having returned null.
C11_WitnessNull ==
    /\ isList /\ N = 3
    /\ \E n \in DOMAIN procCalls :
         /\ procCalls[n].idx = 3
         /\ procCalls[n].prior = <<1>>
    /\ \E n \in DOMAIN procResults :
         procResults[n].idx = 2 /\ procResults[n].res = NoneVal

\* ---------------------------------------------------------------- C12
ProcCallsFor(k) == { n \in DOMAIN procCalls : procCalls[n].idx = k }

\* C12: within one invocation the processor is invoked at most once per record
\* of the batch, whether the record succeeded or failed; records that failed
\* are not invoked again by the resolution step.
C12_AtMostOncePerRecord ==
    isList => \A k \in 1..N : Cardinality(ProcCallsFor(k)) <= 1

\* A batch whose invocation went through resolution: one record succeeded, one
\* failed, each was invoked once.
C12_Witness ==
    /\ BatchDone /\ N >= 2 /\ outcome = "BatchFailure"
    /\ \E k, l \in 1..N :
         /\ k \in procOk /\ l \notin procOk
         /\ Cardinality(ProcCallsFor(k)) = 1
         /\ Cardinality(ProcCallsFor(l)) = 1

\* ---------------------------------------------------------------- C13
PassThroughDone == pc = "done" /\ on_record /\ ~isList

\* C13: for an event whose 'Records' entry is missing or is not a list, the
\* processor is invoked exactly once, with the raw event as decoded body and as
\* raw record and with empty prior results; what it returns is returned
\* unmodified (what it raises is raised), and no hook, lookup or delete call is
\* made.
C13_PassThrough ==
    PassThroughDone =>
        /\ Len(procCalls) = 1
        /\ procCalls[1].decoded = RawEvent
        /\ procCalls[1].raw = RawEvent
        /\ procCalls[1].prior = <<>>
        /\ hookCalls = <<>> /\ deleteCalls = <<>> /\ resolveLog = <<>>
        /\ lookups = 0
        /\ outcome \in {"processorResult", "processorError"}
        /\ outcome = "processorResult" =>
             /\ Len(procResults) = 1
             /\ retval = <<"result", procResults[1].res>>
        /\ outcome = "processorError" => retval = NoRetval /\ procResults = <<>>

\* A pass-through call whose processor returned a non-null result, with a
\* failure hook registered.
C13_Witness ==
    /\ PassThroughDone /\ on_failed_record
    /\ outcome = "processorResult"
    /\ Len(procCalls) = 1
    /\ retval = <<"result", 1>>

\* ---------------------------------------------------------------- C14
EmptyBatchDone == pc = "done" /\ on_record /\ isList /\ N = 0

\* C14 as stated: when Records is an empty list the processor is invoked
\* exactly once on the raw event with empty prior results and its result is
\* returned directly, with no resolution or deletion.
C14_Original ==
    EmptyBatchDone =>
        /\ Len(procCalls) = 1
        /\ procCalls[1].decoded = RawEvent
        /\ procCalls[1].prior = <<>>
        /\ outcome \in {"processorResult", "processorError"}
        /\ deleteCalls = <<>> /\ resolveLog = <<>>

\* C14 amended: when Records is an empty list the processor is not invoked at
\* all; __call__ returns 0, with no hook call and no resolution, lookup or
\* deletion.
C14_Amended ==
    EmptyBatchDone =>
        /\ procCalls = <<>>
        /\ hookCalls = <<>>
        /\ outcome = "return0"
        /\ retval = ReturnZero
        /\ deleteCalls = <<>> /\ resolveLog = <<>>
        /\ lookups = 0

\* The call on an empty list has returned.
C14_Witness == EmptyBatchDone /\ retval = ReturnZero /\ i = 1

\* ---------------------------------------------------------------- C15
\* C15: a record whose eventSource is not 'aws:sqs' reaches the processor as
\* the record itself, its body not decoded, and is never the subject of a
\* queue-URL lookup or a delete_message call, whether it succeeded or failed;
\* a record whose eventSource is 'aws:sqs' reaches the processor as the decoded
\* value of its body.
C15_SourceRouting ==
    isList =>
        /\ \A n \in DOMAIN procCalls :
             LET rec == Records[procCalls[n].idx]
             IN  /\ procCalls[n].raw = rec.id
                 /\ procCalls[n].decoded =
                        IF IsQueueSourced(rec) THEN <<"body", rec.id>>
                                               ELSE <<"record", rec.id>>
        /\ \A k \in 1..N :
             ~IsQueueSourced(Records[k]) =>
                 /\ DeleteCallsFor(k) = {}
                 /\ \A n \in ResolveItersFor(k) :
                      resolveLog[n].end = "notSqs" /\ resolveLog[n].looked = 0

\* A batch of a non-queue record that succeeded, a queue record that succeeded
\* and a record that failed, after resolution: the first was skipped there,
\* a delete was issued for the second.
C15_Witness ==
    /\ BatchDone /\ N = 3 /\ outcome = "BatchFailure"
    /\ ~IsQueueSourced(Records[1]) /\ IsQueueSourced(Records[2])
    /\ procOk = {1, 2}
    /\ \E n \in DOMAIN procCalls :
         procCalls[n].idx = 1 /\ procCalls[n].decoded = <<"record", 1>>
    /\ \E n \in DOMAIN procCalls :
         procCalls[n].idx = 2 /\ procCalls[n].decoded = <<"body", 2>>
    /\ ResolveItersFor(1) # {}
    /\ DeleteCallsFor(1) = {} /\ DeleteCallsFor(2) # {}

\* ---------------------------------------------------------------- C16
Killed == pc = "done" /\ outcome = "killed"
DeletedIdx == { k \in 1..N : "deleted" \in ResolveEnds(k) }

\* C16: when the invocation is killed, wherever it stood, every record whose
\* delete had completed is out of the queue and stays out (it is not delivered
\* again), and every record already marked failed is in the queue, had no
\* delete issued for it, and is still in the queue once the platform has taken
\* note of the kill: the kill deletes no failed record. Messages never
\* re-enter the queue and deliveries are made of messages of the queue.
C16_KillKeepsSplit ==
    [][ /\ Killed =>
             /\ \A k \in DeletedIdx :
                  Records[k].id \notin queue /\ Records[k].id \notin queue'
             /\ \A k \in FailedIdx :
                  /\ DeleteCallsFor(k) = {}
                  /\ Records[k].id \in queue /\ Records[k].id \in queue'
        /\ queue' \subseteq queue
        /\ pc = "idle" => delivered' \subseteq queue ]_vars

\* Killed during resolution: one record of the batch had been deleted, the
\* other was marked failed and is still queued.
C16_Witness ==
    /\ Killed /\ N = 2
    /\ DeletedIdx # {} /\ FailedIdx # {}
    /\ \E k \in FailedIdx : Records[k].id \in queue
    /\ \E k \in DeletedIdx : Records[k].id \notin queue

\* ---------------------------------------------------------------- C17
CallsOf(arn) == { n \in DOMAIN urlCalls : urlCalls[n].arn = arn }
LookupsOf(arn) == Cardinality({ n \in CallsOf(arn) : urlCalls[n].looked = 1 })
IsAddress(ret) == ret \notin {"NONE", "RAISE"}

\* C17 as stated: for any identifier and any sequence of get_url calls with
\* it, whatever the outcome of the first lookup, all calls return the same
\* value and at most one get_queue_url lookup is issued in total.
C17_Original ==
    \A a \in Arns :
        /\ \A n, m \in CallsOf(a) : urlCalls[n].ret = urlCalls[m].ret
        /\ LookupsOf(a) <= 1

\* C17 amended: once a get_url call has returned an address, every later call
\* with the same identifier returns that address and issues no lookup; a call
\* whose lookup raised an error other than QueueDoesNotExist raises, leaves
\* the memo as it was, and is followed by a new lookup at the next call; the
\* lookups issued for an identifier are at most one more than the calls with
\* it that did not return an address.
C17_Amended ==
    \A a \in Arns :
        /\ \A n, m \in CallsOf(a) :
             (n < m /\ IsAddress(urlCalls[n].ret)) =>
                 /\ urlCalls[m].ret = urlCalls[n].ret
                 /\ urlCalls[m].looked = 0
        /\ \A n \in CallsOf(a) :
             urlCalls[n].lookup = "ClientError" =>
                 /\ urlCalls[n].ret = "RAISE"
                 /\ \A m \in CallsOf(a) :
                      (m > n /\ \A x \in CallsOf(a) : ~(n < x /\ x < m))
                          => urlCalls[m].looked = 1
        /\ LookupsOf(a) <=
             1 + Cardinality({ n \in CallsOf(a) : ~IsAddress(urlCalls[n].ret) })
        /\ cache[a] \notin {"MISS", "NONE"} <=>
             \E n \in CallsOf(a) : IsAddress(urlCalls[n].ret)

\* Three calls with one identifier: the first lookup raises, the second call
\* looks up again and returns the address, the third returns it from the memo.
C17_Witness ==
    /\ Len(urlCalls) = 3
    /\ \A n \in 1..3 : urlCalls[n].arn = QArn
    /\ urlCalls[1].ret = "RAISE"
    /\ urlCalls[2].ret = QueueUrl(QArn) /\ urlCalls[2].looked = 1
    /\ urlCalls[3].ret = QueueUrl(QArn) /\ urlCalls[3].looked = 0
    /\ lookups = 2

\* ---------------------------------------------------------------- C18
\* C18: only successful resolutions are memoized: when get_url yields absent
\* (malformed identifier, or the queue does not exist) nothing is written
\* into the cache, so a later call with the same identifier runs the body
\* again, and for a well-formed identifier performs a fresh lookup.
C18_OnlySuccessMemoized ==
    /\ \A a \in Arns : cache[a] # "NONE"
    /\ \A a \in Arns : \A n, m \in CallsOf(a) :
         (n < m /\ urlCalls[n].ret = "NONE" /\ a # NotAnArn) =>
             urlCalls[m].looked = 1

\* ---------------------------------------------------------------- C19
\* C19: get_url of a malformed identifier, or of a queue that does not exist,
\* returns absent and does not raise; for a malformed identifier no
\* get_queue_url lookup is issued.
C19_AbsentNeverRaises ==
    \A n \in DOMAIN urlCalls :
        /\ urlCalls[n].arn = NotAnArn =>
             /\ urlCalls[n].ret = "NONE"
             /\ urlCalls[n].looked = 0
             /\ urlCalls[n].lookup = "none"
        /\ urlCalls[n].lookup = "QueueDoesNotExist" => urlCalls[n].ret = "NONE"

\* get_url was called with the malformed identifier and with the identifier
\* of a queue that did not exist; both calls returned absent, one lookup made.
C19_Witness ==
    /\ \E n \in DOMAIN urlCalls :
         urlCalls[n].arn = NotAnArn /\ urlCalls[n].ret = "NONE"
    /\ \E n \in DOMAIN urlCalls :
         /\ urlCalls[n].arn = QArn
         /\ urlCalls[n].lookup = "QueueDoesNotExist"
         /\ urlCalls[n].ret = "NONE"
    /\ lookups = 1

\* ---------------------------------------------------------------- C20
\* C20: when no record processor is registered, __call__ raises RuntimeError
\* at once, for a batch as for a pass-through event: the loop is never
\* entered, no record is decoded or processed, and no hook, lookup or delete
\* call is made.
C20_Unconfigured ==
    ~on_record =>
        /\ pc \in {"call", "done"}
        /\ pc = "done" => outcome = "RuntimeError"
        /\ procCalls = <<>> /\ hookCalls = <<>> /\ deleteCalls = <<>>
        /\ resolveLog = <<>> /\ lookups = 0
        /\ decoded_event = Unbound
        /\ i = 1
        /\ FailedIdx = {}
        /\ retval = NoRetval

\* The call has raised for a batch of two records with a hook registered,
\* and for a pass-through event.
C20_Witness ==
    /\ ~on_record /\ pc = "done" /\ outcome = "RuntimeError"
    /\ isList /\ N = 2 /\ on_failed_record

C20_WitnessPassThrough ==
    ~on_record /\ pc = "done" /\ outcome = "RuntimeError" /\ ~isList

\* ---------------------------------------------------------------- C21
\* The calls of the wrapper that are over, and what was done for call n.
WrapDone == 1..Len(wrapOutcomes)
PutCallsOf(n) == { k \in DOMAIN putCalls : putCalls[k].call = n }
ApiCallsOf(n) == { k \in DOMAIN apiCalls : apiCalls[k].call = n }

\* The detail the claim prescribes for a function that ended as f.
ExpectedDetail(f) ==
    [state |-> IF f.kind = "return" THEN "SUCCEEDED" ELSE "FAILED",
     event |-> LambdaEvent,
     result |-> IF f.kind = "return" THEN f.value
                ELSE IF f.value # NoDetail THEN f.value
                ELSE <<"error", f.type>>]

C21_WitnessDropped ==
    /\ Len(wrapOutcomes) = 1
    /\ fnOutcomes[1].kind = "return" /\ ~Serializable(fnOutcomes[1].value)
    /\ PutCallsOf(1) # {} /\ ApiCallsOf(1) = {}
    /\ wrapOutcomes[1].kind = "returned"

\* ---------------------------------------------------------------- C22
\* The emission of call n failed: the put_events API call raised.
EmitFailed(n) == \E k \in ApiCallsOf(n) : ~apiCalls[k].accepted

\* What the claim prescribes the caller to see for call n.
OutcomeKept(n) ==
    LET f == fnOutcomes[n]
    IN  IF EmitFailed(n) /\ ~ignore_fails
        THEN wrapOutcomes[n] = [kind |-> "raised", what |-> <<"error", "RuntimeError">>]
        ELSE IF f.kind = "return"
        THEN wrapOutcomes[n] = [kind |-> "returned", what |-> f.value]
        ELSE wrapOutcomes[n] = [kind |-> "raised", what |-> <<"error", f.type>>]

\* C22: the wrapper returns what the function returned and raises what the
\* function raised, unchanged, except that a failed emission with
\* ignore_fails False makes it raise RuntimeError; with ignore_fails True a
\* failed emission never changes the outcome.
C22_OutcomeUnchanged == \A n \in WrapDone : OutcomeKept(n)

\* The same, for the calls in which the function returned or raised an
\* Exception: this much holds.
C22_ForExceptions ==
    \A n \in WrapDone :
        (fnOutcomes[n].kind = "return" \/ IsException(fnOutcomes[n])) => OutcomeKept(n)

\* The function raised SystemExit and the caller of the wrapper got an
\* UnboundLocalError, with ignore_fails True and nothing emitted.
C22_BaseExceptionReplaced ==
    /\ Len(wrapOutcomes) = 1 /\ ignore_fails
    /\ fnOutcomes[1].type = "SystemExit"
    /\ wrapOutcomes[1].what = <<"error", "UnboundLocalError">>
    /\ putCalls = <<>>

\* ---------------------------------------------------------------- C23
LoopPolls == SelectSeq(polls, LAMBDA q : q.by = "wait")
CancelPolls == SelectSeq(polls, LAMBDA q : q.by = "cancel")
NoPollRaised == \A k \in DOMAIN polls : polls[k].status # "RAISE"
LastLoopPollIn(S) ==
    Len(LoopPolls) > 0 /\ LoopPolls[Len(LoopPolls)].status \in S
NoTerminalInLoop ==
    \A k \in DOMAIN LoopPolls : LoopPolls[k].status \in Running

C23_Ends ==
    apc = "done" =>
        /\ waitOutcome \in {"results", "get_result error", "get_status error",
                            "RuntimeError(reason)", "TimeoutError",
                            "RuntimeError(failed to stop)"}
        /\ waitOutcome \in {"results", "get_result error"}
             => LastLoopPollIn({"SUCCEEDED"}) /\ CancelPolls = <<>>
        /\ waitOutcome = "RuntimeError(reason)"
             => LastLoopPollIn({"FAILED", "CANCELLED"}) /\ CancelPolls = <<>>
        /\ waitOutcome = "get_status error"
             => LastLoopPollIn({"RAISE"}) /\ CancelPolls = <<>>
        /\ waitOutcome \in {"TimeoutError", "RuntimeError(failed to stop)"}
             => /\ current_time > query_timeout
                /\ NoTerminalInLoop
                /\ Len(CancelPolls) = 1
                /\ stopCalls = (IF CancelPolls[1].status \in Running THEN 1 ELSE 0)
        /\ waitOutcome = "TimeoutError" => CancelPolls[1].status # "RAISE"
        /\ (NoPollRaised /\ stopCalls = 0) =>
               waitOutcome # "RuntimeError(failed to stop)"

C23_WitnessStopFailed ==
    /\ apc = "done" /\ query_timeout = 2
    /\ waitOutcome = "RuntimeError(failed to stop)"
    /\ NoPollRaised /\ stopCalls = 1

\* ---------------------------------------------------------------- C24
\* C24: within one invocation every delete_message call comes after the last
\* processor call and the last hook call of the batch: while a record is
\* still unprocessed nothing has been deleted (no delete call, no resolution
\* step, the whole batch still queued), and once a delete call has been made
\* no processor or hook call follows. An invocation killed before the
\* resolution pass has deleted nothing, and the whole batch, the records
\* already processed successfully included, stays in the queue for
\* redelivery.
C24_DeletesAfterProcessing ==
    [][ /\ pc \in {"call", "loop"} =>
             /\ deleteCalls = <<>> /\ resolveLog = <<>>
             /\ delivered \subseteq queue
        /\ (deleteCalls # <<>> \/ resolveLog # <<>>) =>
             i > N /\ procOk \cup FailedIdx = 1..N
        /\ (pc # "done" /\ (procCalls' # procCalls \/ hookCalls' # hookCalls)) =>
             deleteCalls = <<>> /\ deleteCalls' = <<>>
        /\ (pc # "done" /\ deleteCalls' # deleteCalls) =>
             procCalls' = procCalls /\ hookCalls' = hookCalls
        /\ (Killed /\ resolveLog = <<>>) =>
             /\ deleteCalls = <<>>
             /\ delivered \subseteq queue /\ delivered \subseteq queue' ]_vars

\* Killed in the loop over a batch of two, after the first record had been
\* processed successfully: nothing deleted, both messages still queued.
C24_Witness ==
    /\ Killed /\ N = 2 /\ i = 2
    /\ procOk = {1}
    /\ resolveLog = <<>> /\ deleteCalls = <<>>
    /\ delivered \subseteq queue

\* ---------------------------------------------------------------- C25
\* C25: under fair redelivery, the processor eventually succeeding for every
\* message and deletes eventually succeeding, every message delivered to the
\* handler eventually leaves the queue (deleted by the resolver, or
\* acknowledged with a clean return), and the queue eventually is empty.
C25_QueueDrains ==
    /\ \A m \in 1..MaxMsgs : (m \in delivered) ~> (m \notin queue)
    /\ <>(queue = {})

\* The queue has been emptied and every message was processed successfully.
C25_Witness ==
    /\ queue = {} /\ pc = "idle"
    /\ everOk = 1..MaxMsgs
====
